---- MODULE Spec2Model ----
(***************************************************************************)
(* Model of the ecloud-sdk client: the request executor (performRequest),  *)
(* the default retry policy, the credential state (Login / Refresh), the   *)
(* upload of medical records (SyncMedicalRecords) and isValidPDF.          *)
(* performRequest is the gzip-aware one of src/unnamed/part_000; the one   *)
(* of src/http.go is the same loop without the compression and without the *)
(* two gzip headers.                                                       *)
(*                                                                         *)
(* Strings are sequences of one-character strings, so that prefix tests,   *)
(* case folding and concatenation are computed and not assumed.  Bodies    *)
(* are sequences of byte values.                                           *)
(***************************************************************************)
EXTENDS Integers, Sequences, FiniteSets, TLC

(***************************************************************************)
(* Bounds of the model.                                                    *)
(***************************************************************************)
\* Deepest nesting of calls: a request whose 401 starts a Refresh is depth 2.
MaxDepth == 2

(***************************************************************************)
(* Program constants.                                                      *)
(***************************************************************************)
\* NewEcloudClient: &DefaultRetryPolicy{maxRetries: 3}
maxRetries == 3

StatusOK == 200
StatusUnauthorized == 401

(***************************************************************************)
(* Strings.                                                                *)
(***************************************************************************)
Empty == << >>

UpperToLower ==
    [c \in {"A","B","C","D","E","F","G","H","I","J","K","L","M","N","O","P",
            "Q","R","S","T","U","V","W","X","Y","Z"} |->
        CASE c = "A" -> "a" [] c = "B" -> "b" [] c = "C" -> "c" [] c = "D" -> "d"
          [] c = "E" -> "e" [] c = "F" -> "f" [] c = "G" -> "g" [] c = "H" -> "h"
          [] c = "I" -> "i" [] c = "J" -> "j" [] c = "K" -> "k" [] c = "L" -> "l"
          [] c = "M" -> "m" [] c = "N" -> "n" [] c = "O" -> "o" [] c = "P" -> "p"
          [] c = "Q" -> "q" [] c = "R" -> "r" [] c = "S" -> "s" [] c = "T" -> "t"
          [] c = "U" -> "u" [] c = "V" -> "v" [] c = "W" -> "w" [] c = "X" -> "x"
          [] c = "Y" -> "y" [] c = "Z" -> "z"]

\* strings.ToLower
ToLower(s) ==
    [i \in 1..Len(s) |-> IF s[i] \in DOMAIN UpperToLower THEN UpperToLower[s[i]] ELSE s[i]]

\* strings.HasPrefix
HasPrefix(s, p) == Len(s) >= Len(p) /\ SubSeq(s, 1, Len(p)) = p

MultipartFormData ==
    <<"m","u","l","t","i","p","a","r","t","/","f","o","r","m","-","d","a","t","a">>
ApplicationJSON ==
    <<"a","p","p","l","i","c","a","t","i","o","n","/","j","s","o","n">>
GzipStr == <<"g","z","i","p">>
BearerPrefix == <<"B","e","a","r","e","r"," ">>
BoundarySuffix == <<";"," ","b","o","u","n","d","a","r","y","=","x">>
TextPlain == <<"t","e","x","t","/","p","l","a","i","n">>
Identity == <<"i","d","e","n","t","i","t","y">>

\* Tokens a login response can carry.
T1 == <<"t","1">>
T2 == <<"t","2">>
Tokens == {T1, T2}
CallerToken == <<"c","t">>

(***************************************************************************)
(* Header maps.  A caller's map[string]string keeps the caller's keys;     *)
(* http.Header canonicalises the key on Set and Get.                       *)
(***************************************************************************)
NoHeaders == [k \in {} |-> Empty]

\* textproto.CanonicalMIMEHeaderKey on the keys the model uses
CanonicalKey(k) ==
    CASE k = "content-type" -> "Content-Type"
      [] k = "content-encoding" -> "Content-Encoding"
      [] k = "authorization" -> "Authorization"
      [] k = "accept" -> "Accept"
      [] k = "accept-encoding" -> "Accept-Encoding"
      [] OTHER -> k

\* http.Header.Get: "" when the key is absent
HeaderGet(h, k) == IF CanonicalKey(k) \in DOMAIN h THEN h[CanonicalKey(k)] ELSE Empty

\* http.Header.Set
HeaderSet(h, k, v) ==
    [x \in DOMAIN h \cup {CanonicalKey(k)} |-> IF x = CanonicalKey(k) THEN v ELSE h[x]]

\* map[string]string index: exact key, "" when absent (also for a nil map)
MapGet(m, k) == IF k \in DOMAIN m THEN m[k] ELSE Empty

(***************************************************************************)
(* Values exchanged with the transport.                                    *)
(***************************************************************************)
\* A nil *http.Response and a nil error.  att is the attempt index at which
\* the value was obtained: it identifies the response within its call.
NoResp == [status |-> 0, att |-> 0 - 1, tok |-> Empty, uid |-> 0, json |-> FALSE]
NoErr == [kind |-> "nil", att |-> 0 - 1]

Response(status, att, tok, uid, json) ==
    [status |-> status, att |-> att, tok |-> tok, uid |-> uid, json |-> json]
TransportErr(kind, att) == [kind |-> kind, att |-> att]

(***************************************************************************)
(* DefaultRetryPolicy                                                      *)
(***************************************************************************)
\* Mutant: a 401 is not a reason to retry.
ShouldRetryNo401(attempt, err, resp) ==
    IF attempt >= maxRetries THEN FALSE
    ELSE IF err # NoErr \/ (resp # NoResp /\ resp.status >= 500) THEN TRUE
    ELSE FALSE

\* Mutant: the ceiling is reached one attempt early.
ShouldRetryEarly(attempt, err, resp) ==
    IF attempt + 1 >= maxRetries THEN FALSE
    ELSE IF err # NoErr \/ (resp # NoResp /\ resp.status >= 500) THEN TRUE
    ELSE resp # NoResp /\ resp.status = StatusUnauthorized

ShouldRetry(attempt, err, resp) ==
    IF attempt >= maxRetries THEN FALSE
    ELSE IF err # NoErr \/ (resp # NoResp /\ resp.status >= 500) THEN TRUE
    ELSE IF resp # NoResp /\ resp.status = StatusUnauthorized THEN TRUE
    ELSE FALSE

(***************************************************************************)
(* int64 arithmetic.  A value of type int or time.Duration is the sequence *)
(* of its eight bytes, least significant first, in two's complement; a     *)
(* product keeps the low eight bytes, as Go's multiplication does.         *)
(***************************************************************************)
Int64Bytes == 8

\* The bytes of a non-negative number below 2^31, on n bytes.
Bytes(v, n) ==
    [i \in 1..n |-> CASE i = 1 -> v % 256
                     [] i = 2 -> (v \div 256) % 256
                     [] i = 3 -> (v \div 65536) % 256
                     [] i = 4 -> (v \div 16777216) % 256
                     [] OTHER -> 0]

Int64(v) == Bytes(v, Int64Bytes)

RECURSIVE Column(_, _, _, _)
\* the sum of x[i] * y[j+1-i] for i in lo..j
Column(x, y, j, lo) ==
    IF lo > j THEN 0
    ELSE (IF lo <= Len(x) /\ j + 1 - lo <= Len(y) THEN x[lo] * y[j + 1 - lo] ELSE 0)
         + Column(x, y, j, lo + 1)

RECURSIVE MulFrom(_, _, _, _, _)
MulFrom(x, y, j, carry, n) ==
    IF j > n THEN << >>
    ELSE LET t == Column(x, y, j, 1) + carry
         IN <<t % 256>> \o MulFrom(x, y, j + 1, t \div 256, n)

\* x * y on n bytes: the low n bytes of the product
Mul(x, y, n) == MulFrom(x, y, 1, 0, n)

\* int64 multiplication
Mul64(x, y) == Mul(x, y, Int64Bytes)

Negative64(x) == x[Int64Bytes] >= 128

RECURSIVE LessFrom(_, _, _)
\* unsigned comparison of the bytes i, i-1, ..., 1
LessFrom(x, y, i) ==
    IF i = 0 THEN FALSE
    ELSE IF x[i] # y[i] THEN x[i] < y[i]
    ELSE LessFrom(x, y, i - 1)

\* x <= y for two int64 values
LessEq64(x, y) ==
    IF Negative64(x) # Negative64(y) THEN Negative64(x)
    ELSE x = y \/ LessFrom(x, y, Int64Bytes)

\* time.Second, in nanoseconds
Second == 1000000000

\* time.Duration(attempt*attempt) * time.Second
Duration(attempt) == Mul64(Mul64(Int64(attempt), Int64(attempt)), Int64(Second))

\* The durations of the attempt indexes the retry loop reaches, computed once.
LoopDurations == [a \in 0..maxRetries |-> Duration(a)]

BackoffDuration(attempt) ==
    IF attempt \in DOMAIN LoopDurations THEN LoopDurations[attempt] ELSE Duration(attempt)

MaxRetries == maxRetries

(***************************************************************************)
(* performRequest: what happens before the retry loop                      *)
(***************************************************************************)
\* compress/gzip on a byte sequence: the two magic bytes, the data, and a
\* trailer carrying the length of the data.
Gzip(b) == <<31, 139>> \o b \o <<Len(b)>>

\* ct := strings.ToLower(headers["Content-Type"])
\* isMultipart = strings.HasPrefix(ct, "multipart/form-data")
IsMultipart(headers) ==
    HasPrefix(ToLower(MapGet(headers, "Content-Type")), MultipartFormData)

\* var compressBody = true
\* if len(gzipCompress) > 0 && !isMultipart { compressBody = gzipCompress[0] }
\* gz is the variadic gzipCompress: "absent", "true" or "false".
CompressBody(gz, isMultipart) ==
    IF gz # "absent" /\ ~isMultipart THEN gz = "true" ELSE TRUE

\* The bytes of the reader handed to NewRequest: the gzip buffer or the
\* caller's reader.
ReqBody(hasBody, body, compressBody, isMultipart) ==
    IF compressBody /\ hasBody /\ ~isMultipart THEN Gzip(body) ELSE body

(***************************************************************************)
(* performRequest: the headers of one attempt                              *)
(***************************************************************************)
\* for k, v := range headers { req.Header.Set(k, v) }
SetAll(h, headers) ==
    [x \in DOMAIN h \cup {CanonicalKey(k) : k \in DOMAIN headers} |->
        IF \E k \in DOMAIN headers : CanonicalKey(k) = x
        THEN headers[CHOOSE k \in DOMAIN headers : CanonicalKey(k) = x]
        ELSE h[x]]

\* Mutant: the bearer token is never put on the request.
WithAuthNone(h, tok) == h

\* if c.jwtToken != "" { req.Header.Set("Authorization", "Bearer "+c.jwtToken) }
WithAuth(h, tok) ==
    IF tok # Empty THEN HeaderSet(h, "Authorization", BearerPrefix \o tok) ELSE h

\* Mutant: the default replaces what the caller supplied.
WithDefaultAlways(h, k, v) == HeaderSet(h, k, v)

\* if req.Header.Get(k) == "" { req.Header.Set(k, v) }
WithDefault(h, k, v) == IF HeaderGet(h, k) = Empty THEN HeaderSet(h, k, v) ELSE h

WithGzip(h, compressBody) ==
    HeaderSet(IF compressBody THEN HeaderSet(h, "Content-Encoding", GzipStr) ELSE h,
              "Accept-Encoding", GzipStr)

BuildHeaders(tok, headers, compressBody) ==
    WithGzip(WithDefault(WithDefault(SetAll(WithAuth(NoHeaders, tok), headers),
                                     "Content-Type", ApplicationJSON),
                         "Accept", ApplicationJSON),
             compressBody)

(***************************************************************************)
(* isValidPDF (ecloud.go lines 407-442).  A byte slice is a sequence of    *)
(* one-character strings.                                                  *)
(***************************************************************************)
Digits == {"0","1","2","3","4","5","6","7","8","9"}

\* \s of Go's regexp: [\t\n\f\r ]
Whitespace == {" ", "\t", "\n", "\f", "\r"}

PDFHeader == <<"%","P","D","F","-","1",".">>
PDFEOF == <<"%","%","E","O","F">>
StartXref == <<"s","t","a","r","t","x","r","e","f">>

\* data[max(0, len(data)-1024):]
TailWindow == 1024

\* bytes.Contains
Contains(data, sub) ==
    \E i \in 1..(Len(data) - Len(sub) + 1) : SubSeq(data, i, i + Len(sub) - 1) = sub

\* pdfHeaderPattern `^%PDF-1\.\d` on data[:8]
HeaderMatch(b) ==
    /\ Len(b) >= Len(PDFHeader) + 1
    /\ SubSeq(b, 1, Len(PDFHeader)) = PDFHeader
    /\ b[Len(PDFHeader) + 1] \in Digits

\* Mutant: the marker may be followed by anything.
FooterMatchAnywhere(b) == Contains(b, PDFEOF)

\* pdfFooterPattern `%%EOF\s*$`: the marker at some position, and only
\* whitespace from there to the end
FooterMatch(b) ==
    \E i \in 1..(Len(b) - Len(PDFEOF) + 1) :
        /\ SubSeq(b, i, i + Len(PDFEOF) - 1) = PDFEOF
        /\ \A j \in (i + Len(PDFEOF))..Len(b) : b[j] \in Whitespace

EndBytes(data) ==
    SubSeq(data, (IF Len(data) - TailWindow > 0 THEN Len(data) - TailWindow ELSE 0) + 1,
           Len(data))

isValidPDF(data) ==
    IF Len(data) = 0 THEN FALSE
    ELSE IF Len(data) < 8 THEN FALSE
    ELSE IF ~HeaderMatch(SubSeq(data, 1, 8)) THEN FALSE
    ELSE IF ~FooterMatch(EndBytes(data)) THEN FALSE
    ELSE IF ~Contains(data, StartXref) THEN FALSE
    ELSE TRUE

(***************************************************************************)
(* SyncMedicalRecords (ecloud.go lines 453-530) and PatientRecord.Validate *)
(* (types.go lines 108-130).                                               *)
(***************************************************************************)
DigitChar == <<"0","1","2","3","4","5","6","7","8","9">>

RECURSIVE Itoa(_)
\* fmt.Sprintf("%d", n) of an unsigned number
Itoa(n) == IF n < 10 THEN <<DigitChar[n + 1]>> ELSE Itoa(n \div 10) \o <<DigitChar[(n % 10) + 1]>>

\* n in decimal on at least w digits
Pad(n, w) == [i \in 1..(w - Len(Itoa(n))) |-> "0"] \o Itoa(n)

\* A time.Time in UTC.  The zero Time is January 1, year 1, 00:00:00 UTC.
Time(y, mo, d, h, mi, sec) == [year |-> y, month |-> mo, day |-> d, hour |-> h, min |-> mi, sec |-> sec]
ZeroTime == Time(1, 1, 1, 0, 0, 0)
VisitTime == Time(2024, 5, 17, 9, 30, 0)
IsZero(t) == t = ZeroTime

\* t.Format(time.RFC3339) of a UTC time
FormatRFC3339(t) ==
    Pad(t.year, 4) \o <<"-">> \o Pad(t.month, 2) \o <<"-">> \o Pad(t.day, 2) \o <<"T">>
    \o Pad(t.hour, 2) \o <<":">> \o Pad(t.min, 2) \o <<":">> \o Pad(t.sec, 2) \o <<"Z">>

\* A []byte: nil or a slice.
NilBytes == [present |-> FALSE, data |-> << >>]
Slice(data) == [present |-> TRUE, data |-> data]

\* Attachments: nil, not a PDF, a PDF; for the lab report also an empty slice.
MedicalReports ==
    {NilBytes, Slice(<<"n","o","t"," ","a"," ","p","d","f">>), Slice(<<"%","P","D","F","-","1",".","4"," ","s","t","a","r","t","x","r","e","f","\n","%","%","E","O","F","\n">>)}
LabReports ==
    {NilBytes, Slice(<< >>), Slice(<<"n","o"," ","p","d","f">>), Slice(<<"%","P","D","F","-","1",".","7"," ","s","t","a","r","t","x","r","e","f","\n","%","%","E","O","F">>)}

NoRecord == [isNil |-> TRUE]
NilRecord == [isNil |-> TRUE, VisitID |-> 0, SubscriberID |-> 0, Title |-> Empty,
              VisitTimestamp |-> ZeroTime, MedicalReport |-> NilBytes, LabReport |-> NilBytes]

\* The records handed to SyncMedicalRecords.
PatientRecords ==
    {NilRecord} \cup
    {[isNil |-> FALSE, VisitID |-> v, SubscriberID |-> sub, Title |-> ti,
      VisitTimestamp |-> ts, MedicalReport |-> m, LabReport |-> l] :
        v \in {0, 999}, sub \in {0, 101}, ti \in {Empty, <<"T">>},
        ts \in {ZeroTime, VisitTime}, m \in MedicalReports, l \in LabReports}

\* c.config.HospitalNumber
HospitalNumber == <<"H","1">>

\* Mutant: a record without attachment passes.
ValidateNoAttachments(pr) ==
    IF pr.isNil THEN "patient record is nil"
    ELSE IF pr.VisitID = 0 THEN "patient record missing VisitID"
    ELSE IF pr.SubscriberID = 0 THEN "patient record missing SubscriberID"
    ELSE IF pr.Title = Empty THEN "patient record missing Title"
    ELSE IF IsZero(pr.VisitTimestamp) THEN "patient record missing valid VisitTimestamp"
    ELSE "nil"

\* PatientRecord.Validate: the text of the error, "nil" for none
Validate(pr) ==
    IF pr.isNil THEN "patient record is nil"
    ELSE IF pr.VisitID = 0 THEN "patient record missing VisitID"
    ELSE IF pr.SubscriberID = 0 THEN "patient record missing SubscriberID"
    ELSE IF pr.Title = Empty THEN "patient record missing Title"
    ELSE IF IsZero(pr.VisitTimestamp) THEN "patient record missing valid VisitTimestamp"
    ELSE IF ~pr.MedicalReport.present /\ ~pr.LabReport.present
         THEN "no medical report or laboratory report to upload"
    ELSE "nil"

\* The parts of a multipart body: writer.CreateFormFile(field, file) followed
\* by part.Write(data), and writer.WriteField(field, value).
FormFile(field, file, data) == [field |-> field, file |-> file, data |-> data]
FormField(field, value) == [field |-> field, file |-> "", data |-> value]

ScalarFields(pr) ==
    <<FormField("hospital_number", HospitalNumber),
      FormField("visit_id", Itoa(pr.VisitID)),
      FormField("subscriber_id", Itoa(pr.SubscriberID)),
      FormField("visit_timestamp", FormatRFC3339(pr.VisitTimestamp)),
      FormField("title", pr.Title)>>

MedicalPart(pr) ==
    IF pr.MedicalReport.present
    THEN <<FormFile("medical_report", "medical_report.pdf", pr.MedicalReport.data)>>
    ELSE << >>

LabPart(pr) ==
    IF pr.LabReport.present
    THEN <<FormFile("lab_report", "lab_report.pdf", pr.LabReport.data)>>
    ELSE << >>

\* if patientRecord.MedicalReport != nil { if !isValidPDF(patientRecord.LabReport) {
MedicalReportRejected(pr) == pr.MedicalReport.present /\ ~isValidPDF(pr.LabReport.data)

\* if patientRecord.LabReport != nil { if !isValidPDF(patientRecord.LabReport) {
LabReportRejected(pr) == pr.LabReport.present /\ ~isValidPDF(pr.LabReport.data)

\* Mutant: the lab report is written before the medical report.
AssembleLabFirst(pr) ==
    IF Validate(pr) # "nil"
    THEN [err |-> "validation error: " \o Validate(pr), buffer |-> << >>]
    ELSE IF MedicalReportRejected(pr)
    THEN [err |-> "ErrInvalidMedicalReportPDF", buffer |-> << >>]
    ELSE IF LabReportRejected(pr)
    THEN [err |-> "ErrInvalidLabReportPDF", buffer |-> MedicalPart(pr)]
    ELSE [err |-> "nil", buffer |-> LabPart(pr) \o MedicalPart(pr) \o ScalarFields(pr)]

\* SyncMedicalRecords up to its call of performRequest: the error it returns
\* ("nil" when it goes on) and what has been written to the buffer.
Assemble(pr) ==
    IF Validate(pr) # "nil"
    THEN [err |-> "validation error: " \o Validate(pr), buffer |-> << >>]
    ELSE IF MedicalReportRejected(pr)
    THEN [err |-> "ErrInvalidMedicalReportPDF", buffer |-> << >>]
    ELSE IF LabReportRejected(pr)
    THEN [err |-> "ErrInvalidLabReportPDF", buffer |-> MedicalPart(pr)]
    ELSE [err |-> "nil", buffer |-> MedicalPart(pr) \o LabPart(pr) \o ScalarFields(pr)]

(***************************************************************************)
(* State.                                                                  *)
(*   jwtToken, user, authenticated   DefaultEcloudClient's credential      *)
(*   stack          the calls in progress, innermost last.  One frame is   *)
(*                  one Login or one domain request together with the      *)
(*                  performRequest it runs; a Refresh started by a 401 is  *)
(*                  a Login frame pushed above the frame that got the 401. *)
(*   call           the call of a function that touches no state of the    *)
(*                  client (the retry policy, isValidPDF): its inputs and, *)
(*                  once it has returned, its result.                      *)
(***************************************************************************)
VARIABLES jwtToken, user, authenticated, stack, call

vars == <<jwtToken, user, authenticated, stack, call>>

NoCall == [fn |-> "none"]

\* json.Marshal(loginReq) and the body of a domain request
LoginBody == <<123, 125>>
RequestBody == <<7, 9>>

\* Header maps a caller passes.
MultipartHeaders == [k \in {"Content-Type"} |-> MultipartFormData \o BoundarySuffix]
MultipartUpperHeaders ==
    [k \in {"Content-Type"} |-> <<"M","u","l","t","i","p","a","r","t","/","F","o","r","m","-",
                                  "D","a","t","a">> \o BoundarySuffix]
TextHeaders == [k \in {"Content-Type"} |-> TextPlain]
AuthHeaders == [k \in {"Authorization"} |-> BearerPrefix \o CallerToken]
CustomHeaders ==
    [k \in {"content-type", "Accept", "Accept-Encoding"} |->
        IF k = "Accept-Encoding" THEN Identity ELSE TextPlain]

\* The calls of performRequest the callers make (CreatePayment, the POST of
\* a JSON body without headers, has its own action): whether there is a body,
\* the header map, and the variadic gzipCompress.
Call(hasBody, headers, gz) == [hasBody |-> hasBody, headers |-> headers, gz |-> gz]
Calls ==
    {Call(FALSE, NoHeaders, "absent"),            \* GetBill and the other GETs
     Call(TRUE, MultipartUpperHeaders, "false"),
     Call(TRUE, AuthHeaders, "false"),
     Call(FALSE, CustomHeaders, "absent")}

\* What a 200 answer to the login exchange can hold: a token and a user, an
\* empty token, or a body that does not decode.
LoginPayloads ==
    {[tok |-> T1, uid |-> 1, json |-> TRUE], [tok |-> T2, uid |-> 2, json |-> TRUE],
     [tok |-> Empty, uid |-> 0, json |-> TRUE], [tok |-> Empty, uid |-> 0, json |-> FALSE]}
NoPayload == [tok |-> Empty, uid |-> 0, json |-> TRUE]
ErrorStatuses == {404, 500}

\* A request in flight: the token read from the client when it was built,
\* the body it carries and its attempt index.
NoReq == [tok |-> Empty, body |-> Empty, att |-> 0 - 1]
Cred == [tok |-> jwtToken, uid |-> user, auth |-> authenticated]

Depth == Len(stack)
Top == stack[Depth]
Frames == {stack[i] : i \in 1..Depth}

\* How many bytes of the request body the transport has read when Do
\* returns: none (the connection was never made, or a client that does not
\* read the body) or all of them.
ReadChoices(stream) == {0, Len(stream)}
Drop(stream, k) == SubSeq(stream, k + 1, Len(stream))

(***************************************************************************)
(* performRequest: the retry loop                                          *)
(***************************************************************************)
\* return resp, err.  The request, the reader and the loop's resp, lastErr
\* and lastResp are not used again.
Return(f, resp, err) ==
    [f EXCEPT !.pc = "pret", !.pres = [resp |-> resp, err |-> err],
              !.stream = Empty, !.lastErr = NoErr, !.lastResp = NoResp,
              !.req = NoReq, !.resp = NoResp]

\* after the loop: part_000 lines 110-113, http.go lines 82-85
AfterLoop(f) ==
    IF f.lastResp # NoResp THEN Return(f, f.lastResp, NoErr)
    ELSE Return(f, NoResp, f.lastErr)

\* The headers of the request in flight of frame f.
ReqHeaders(f) == BuildHeaders(f.req.tok, f.headers, f.compressBody)

\* http.NewRequestWithContext(ctx, method, url, reqBody) and the headers:
\* the request carries what is still unread of the reader; a nil reader and
\* a reader with nothing left give a request without body.
Send(f) ==
    [f EXCEPT !.pc = "do",
              !.req = [tok |-> jwtToken, body |-> f.stream, att |-> f.attempt],
              !.nsent = @ + 1,
              !.firstBody = IF f.nsent = 0 THEN f.stream ELSE @]

\* for attempt := 0; attempt <= maxRetries; attempt++
LoopCondition(attempt) == attempt <= MaxRetries

\* Mutant: the loop forgets to advance the attempt index.
NextAttemptStuck(attempt) == attempt

NextAttempt(attempt) == attempt + 1

Iterate(f) == IF LoopCondition(f.attempt) THEN Send(f) ELSE AfterLoop(f)

\* time.Sleep(c.retryPolicy.BackoffDuration(attempt)); continue: the
\* sleep, attempt++, the loop test and the next request.  backoff is the
\* time slept before the request in flight was built.
Sleep(f) ==
    Iterate([f EXCEPT !.backoff = BackoffDuration(f.attempt), !.attempt = NextAttempt(@)])

\* The frame of a call that has not yet sent anything: performRequest at
\* the top of its loop.  rec is the patient record of a SyncMedicalRecords.
Frame0(op, via, hasBody, body, headers, gz) ==
    LET mp == IsMultipart(headers)
        cb == CompressBody(gz, mp)
    IN [op |-> op, via |-> via, pc |-> "loop", rec |-> NoRecord,
                hasBody |-> hasBody, body |-> body, headers |-> headers, gz |-> gz,
                isMultipart |-> mp, compressBody |-> cb,
                stream |-> IF hasBody THEN ReqBody(hasBody, body, cb, mp) ELSE Empty,
                attempt |-> 0, nsent |-> 0, req |-> NoReq, firstBody |-> Empty,
                resp |-> NoResp, lastErr |-> NoErr, lastResp |-> NoResp, got |-> NoResp,
                pres |-> [resp |-> NoResp, err |-> NoErr], res |-> "none",
                loginResp |-> [tok |-> Empty, uid |-> 0],
                cred0 |-> Cred, outcome |-> "none", newTok |-> Empty,
                onlyNet |-> TRUE, errLogs |-> 0, backoff |-> Int64(0)]

\* performRequest up to its first exchange
NewFrame(op, via, hasBody, body, headers, gz) ==
    Iterate(Frame0(op, via, hasBody, body, headers, gz))

\* Login's call: performRequest(ctx, "POST", url, bytes.NewReader(body), nil)
LoginFrame(via) == NewFrame("Login", via, TRUE, LoginBody, NoHeaders, "absent")

Init ==
    /\ jwtToken = Empty
    /\ user = 0
    /\ authenticated = FALSE
    /\ stack = << >>
    /\ call = NoCall

SetTop(f) == [stack EXCEPT ![Depth] = f]

\* The caller starts Login.
CallLogin ==
    /\ Depth = 0
    /\ stack' = <<LoginFrame("top")>>
    /\ UNCHANGED <<jwtToken, user, authenticated, call>>

\* The caller starts a domain operation, which calls performRequest.
CallRequest ==
    /\ Depth = 0
    /\ \E c \in Calls :
          stack' = <<NewFrame("Request", "top", c.hasBody,
                                 IF c.hasBody THEN RequestBody ELSE Empty, c.headers, c.gz)>>
    /\ UNCHANGED <<jwtToken, user, authenticated, call>>

\* The arguments of CreatePayment: subscriberID, amountToPay, registeredBy.
Payments ==
    {[isNil |-> FALSE, subscriberID |-> sub, amountToPay |-> am, registeredBy |-> by] :
        sub \in {0, 101}, am \in {-1, 50}, by \in {Empty, <<"u">>}}

\* Mutant: the amount is not looked at.
PaymentErrorNoAmount(p) ==
    IF p.subscriberID = 0 THEN "subscriber id must not be zero"
    ELSE IF p.registeredBy = Empty
        THEN "eclinic user making the payment (registered_by) must not be empty"
    ELSE "nil"

\* CreatePayment's checks of its parameters: the error, "nil" for none.
PaymentError(p) ==
    IF p.subscriberID = 0 THEN "subscriber id must not be zero"
    ELSE IF p.amountToPay < 0 THEN "amount to be paid must be greater then zero"
    ELSE IF p.registeredBy = Empty
        THEN "eclinic user making the payment (registered_by) must not be empty"
    ELSE "nil"

\* json.Marshal(payment): the fields that are set, in the order of the struct.
PaymentBody(p) == <<p.subscriberID, p.amountToPay>> \o p.registeredBy

\* The caller starts CreatePayment: the parameter checks, then
\* performRequest(ctx, POST, url, bytes.NewReader(data), nil).
CallCreatePayment ==
    /\ Depth = 0
    /\ \E p \in Payments :
          stack' = <<IF PaymentError(p) # "nil"
                     THEN [Frame0("Payment", "top", FALSE, Empty, NoHeaders, "absent")
                              EXCEPT !.pc = "ret", !.res = PaymentError(p), !.rec = p]
                     ELSE [NewFrame("Payment", "top", TRUE, PaymentBody(p), NoHeaders, "absent")
                              EXCEPT !.rec = p]>>
    /\ UNCHANGED <<jwtToken, user, authenticated, call>>

\* The caller starts SyncMedicalRecords: validation, the multipart body and
\* performRequest(ctx, POST, url, bytes.NewReader(buffer.Bytes()), headers)
\* with headers = {"Content-Type": writer.FormDataContentType()}.
CallSync ==
    /\ Depth = 0
    /\ \E pr \in PatientRecords :
          LET a == Assemble(pr)
          IN stack' = <<IF a.err # "nil"
                        THEN [Frame0("Sync", "top", FALSE, a.buffer, NoHeaders, "absent")
                                 EXCEPT !.pc = "ret", !.res = a.err, !.rec = pr]
                        ELSE [NewFrame("Sync", "top", TRUE, a.buffer, MultipartHeaders, "absent")
                                 EXCEPT !.rec = pr]>>
    /\ UNCHANGED <<jwtToken, user, authenticated, call>>

\* httpClient.Do returns an error (connection error, timeout); as http.Client
\* does for such errors, it returns no response with it.
DoTransportError ==
    /\ Depth > 0 /\ Top.pc = "do"
    /\ \E k \in ReadChoices(Top.stream) :
          LET err == TransportErr("transport", Top.attempt)
              f == [Top EXCEPT !.stream = Drop(@, k), !.lastErr = err, !.lastResp = NoResp,
                               !.resp = NoResp, !.outcome = "neterr", !.newTok = Empty]
          IN stack' = SetTop(IF ~ShouldRetry(f.attempt, err, NoResp)
                             THEN AfterLoop(f) ELSE Sleep(f))
    /\ UNCHANGED <<jwtToken, user, authenticated, call>>

\* httpClient.Do returns an error together with a response: the redirect
\* policy gave up on a 302.  The request body has been read.
DoRedirectError ==
    /\ Depth > 0 /\ Top.pc = "do"
    /\ LET err == TransportErr("redirect", Top.attempt)
           resp == Response(302, Top.attempt, Empty, 0, FALSE)
           f == [Top EXCEPT !.stream = Empty, !.lastErr = err, !.lastResp = resp,
                            !.resp = resp, !.got = resp, !.outcome = "redirect",
                            !.newTok = Empty, !.onlyNet = FALSE]
       IN stack' = SetTop(IF ~ShouldRetry(f.attempt, err, resp)
                          THEN AfterLoop(f) ELSE Sleep(f))
    /\ UNCHANGED <<jwtToken, user, authenticated, call>>

\* The answers the server can give to the exchange of frame f.
Answers(f) ==
    {Response(StatusOK, f.attempt, p.tok, p.uid, p.json) :
        p \in IF f.op = "Login" THEN LoginPayloads ELSE {NoPayload}}
    \cup {Response(s, f.attempt, Empty, 0, TRUE) : s \in ErrorStatuses \cup {StatusUnauthorized}}

\* Mutant: the 401 starts a refresh whether or not the client is
\* authenticated.
NeedsRefreshAlways(resp) == resp.status = StatusUnauthorized

\* Mutant: every status from 401 up starts a refresh.
NeedsRefreshOnError(resp) == resp.status >= StatusUnauthorized /\ authenticated

\* The test of part_000 line 94, http.go line 62.
NeedsRefresh(resp) == resp.status = StatusUnauthorized /\ authenticated

\* httpClient.Do returns a response that does not start a refresh:
\* performRequest returns it.
DoResponse ==
    /\ Depth > 0 /\ Top.pc = "do"
    /\ \E resp \in Answers(Top) :
          /\ ~NeedsRefresh(resp)
          /\ stack' = SetTop(Return([Top EXCEPT !.outcome = "status", !.onlyNet = FALSE,
                                                !.got = resp],
                                    resp, NoErr))
    /\ UNCHANGED <<jwtToken, user, authenticated, call>>

\* httpClient.Do returns a 401 while the client is authenticated:
\* c.Refresh(ctx), that is Login, starts.  The request was answered, so the
\* transport has read its body.
DoUnauthorized ==
    /\ Depth > 0 /\ Top.pc = "do"
    /\ Depth < MaxDepth
    /\ \E resp \in Answers(Top) :
          /\ NeedsRefresh(resp)
          /\ stack' = Append(SetTop([Top EXCEPT !.stream = Empty, !.resp = resp,
                                                !.got = resp,
                                                !.pc = "refresh", !.outcome = "unauthorized",
                                                !.onlyNet = FALSE]),
                             LoginFrame("refresh"))
    /\ UNCHANGED <<jwtToken, user, authenticated, call>>

\* Mutant: the refresh error becomes the error of the call.
RefreshFailedAsError(f) ==
    Return([f EXCEPT !.errLogs = @ + 1, !.outcome = "refreshfailed"], NoResp,
           TransportErr("refresh", f.attempt))

\* return resp, nil after a failed refresh (part_000 lines 96-99)
RefreshFailed(f) ==
    Return([f EXCEPT !.errLogs = @ + 1, !.outcome = "refreshfailed"], f.resp, NoErr)

\* Mutant: the 401 is returned after a successful refresh, without a retry.
RefreshSucceededNoRetry(f, tok) ==
    Return([f EXCEPT !.outcome = "refreshed", !.newTok = tok], f.resp, NoErr)

\* part_000 lines 100-107 after a refresh that succeeded
RefreshSucceeded(f, tok) ==
    LET g == [f EXCEPT !.outcome = "refreshed", !.newTok = tok]
    IN IF ShouldRetry(g.attempt, NoErr, g.resp) THEN Sleep(g) ELSE Return(g, g.resp, NoErr)

\* The Refresh started by a 401 has returned to performRequest.
RefreshReturn ==
    /\ Depth > 1 /\ Top.pc = "ret" /\ Top.via = "refresh"
    /\ LET parent == stack[Depth - 1]
       IN stack' = [SubSeq(stack, 1, Depth - 1) EXCEPT ![Depth - 1] =
                        IF Top.res # "ok" THEN RefreshFailed(parent)
                        ELSE RefreshSucceeded(parent, Top.loginResp.tok)]
    /\ UNCHANGED <<jwtToken, user, authenticated, call>>

(***************************************************************************)
(* Login after its performRequest has returned (ecloud.go lines 164-188)   *)
(***************************************************************************)
\* The frame of an operation that has looked at what performRequest
\* returned: performRequest's locals are gone.
Returned(f) ==
    [f EXCEPT !.attempt = 0, !.nsent = 0, !.req = NoReq, !.firstBody = Empty, !.resp = NoResp,
              !.got = NoResp, !.outcome = "none", !.newTok = Empty, !.onlyNet = TRUE, !.errLogs = 0,
              !.backoff = Int64(0), !.pres = [resp |-> NoResp, err |-> NoErr]]

\* Mutant: the empty token is not rejected.
TokenMissingIgnored(tok) == FALSE

\* if loginResp.Token == ""
TokenMissing(tok) == tok = Empty

\* The error Login returns, "none" when it goes on to store the credential.
LoginError(pres) ==
    IF pres.err # NoErr THEN "transport"
    ELSE IF pres.resp.status # StatusOK THEN "status"
    ELSE IF ~pres.resp.json THEN "decode"
    ELSE IF TokenMissing(pres.resp.tok) THEN "emptytoken"
    ELSE "none"

LoginDecode ==
    /\ Depth > 0 /\ Top.pc = "pret" /\ Top.op = "Login"
    /\ stack' = SetTop(IF LoginError(Top.pres) # "none"
                       THEN [Returned(Top) EXCEPT !.pc = "ret", !.res = LoginError(Top.pres)]
                       ELSE [Returned(Top) EXCEPT !.pc = "decoded",
                                                  !.loginResp = [tok |-> Top.pres.resp.tok,
                                                                 uid |-> Top.pres.resp.uid]])
    /\ UNCHANGED <<jwtToken, user, authenticated, call>>

\* json.NewDecoder(resp.Body).Decode(&loginResp) and the checks around it
\* c.jwtToken = loginResp.Token
StoreToken ==
    /\ Depth > 0 /\ Top.pc = "decoded"
    /\ jwtToken' = Top.loginResp.tok
    /\ stack' = SetTop([Top EXCEPT !.pc = "tokenset"])
    /\ UNCHANGED <<user, authenticated, call>>

\* c.user = loginResp.User
StoreUser ==
    /\ Depth > 0 /\ Top.pc = "tokenset"
    /\ user' = Top.loginResp.uid
    /\ stack' = SetTop([Top EXCEPT !.pc = "userset"])
    /\ UNCHANGED <<jwtToken, authenticated, call>>

\* c.authenticated = true; return &loginResp, nil
StoreAuthenticated ==
    /\ Depth > 0 /\ Top.pc = "userset"
    /\ authenticated' = TRUE
    /\ stack' = SetTop([Top EXCEPT !.pc = "ret", !.res = "ok"])
    /\ UNCHANGED <<jwtToken, user, call>>

\* A domain operation after its performRequest has returned: an error of
\* performRequest is wrapped, a status other than 200 goes to decodeError.
RequestFinish ==
    /\ Depth > 0 /\ Top.pc = "pret" /\ Top.op \in {"Request", "Sync", "Payment"}
    /\ stack' = SetTop([Returned(Top) EXCEPT !.pc = "ret",
                                   !.res = IF Top.pres.err # NoErr THEN "transport"
                                           ELSE IF Top.pres.resp.status # StatusOK THEN "status"
                                           ELSE "ok"])
    /\ UNCHANGED <<jwtToken, user, authenticated, call>>

\* The caller's call returns.
ReturnToCaller ==
    /\ Depth = 1 /\ Top.pc = "ret"
    /\ stack' = << >>
    /\ UNCHANGED <<jwtToken, user, authenticated, call>>

Next ==
    \/ CallLogin
    \/ CallRequest
    \/ CallSync
    \/ CallCreatePayment
    \/ DoTransportError
    \/ DoRedirectError
    \/ DoResponse
    \/ DoUnauthorized
    \/ RefreshReturn
    \/ LoginDecode
    \/ StoreToken
    \/ StoreUser
    \/ StoreAuthenticated
    \/ RequestFinish
    \/ ReturnToCaller

Spec == Init /\ [][Next]_vars

(***************************************************************************)
(* The retry policy on its own: ShouldRetry and BackoffDuration applied to *)
(* inputs drawn from bounded sets.                                         *)
(***************************************************************************)
\* Largest attempt index handed to the policy.
MaxAttempt == 5

PolicyStatuses == {200, 201, 204, 301, 400, 401, 403, 404, 499, 500, 502, 599}

\* Attempt indexes around the largest one whose square, in nanoseconds,
\* fits time.Duration.
LargeAttempts == 96036..96041

ShouldRetryInputs ==
    {[fn |-> "ShouldRetry", done |-> FALSE, attempt |-> a, err |-> e, resp |-> r,
      result |-> FALSE] :
        a \in 0..MaxAttempt,
        e \in {NoErr, TransportErr("transport", 0)},
        r \in {NoResp} \cup {Response(st, 0, Empty, 0, TRUE) : st \in PolicyStatuses}}

BackoffDurationInputs ==
    {[fn |-> "BackoffDuration", done |-> FALSE, attempt |-> a, result |-> Int64(0)] :
        a \in (0..MaxAttempt) \cup LargeAttempts}

InitPolicy ==
    /\ jwtToken = Empty
    /\ user = 0
    /\ authenticated = FALSE
    /\ stack = << >>
    /\ call \in ShouldRetryInputs \cup BackoffDurationInputs

ApplyShouldRetry ==
    /\ call.fn = "ShouldRetry" /\ ~call.done
    /\ call' = [call EXCEPT !.done = TRUE,
                            !.result = ShouldRetry(call.attempt, call.err, call.resp)]
    /\ UNCHANGED <<jwtToken, user, authenticated, stack>>

ApplyBackoffDuration ==
    /\ call.fn = "BackoffDuration" /\ ~call.done
    /\ call' = [call EXCEPT !.done = TRUE, !.result = BackoffDuration(call.attempt)]
    /\ UNCHANGED <<jwtToken, user, authenticated, stack>>

NextPolicy ==
    \/ ApplyShouldRetry
    \/ ApplyBackoffDuration

SpecPolicy == InitPolicy /\ [][NextPolicy]_vars

(***************************************************************************)
(* isValidPDF on its own, applied to byte slices put together from a       *)
(* beginning, a middle, an end and a run of trailing spaces.               *)
(***************************************************************************)
PDFHeads ==
    {<<"%","P","D","F","-","1",".","7">>,
     <<"%","P","D","F","-","1",".","0">>,
     <<"%","P","D","F","-","1",".","x">>,
     <<"%","P","D","F","-","2",".","0">>,
     <<"%","P","D","F","-","1",".">>,
     << >>,
     <<"x","%","P","D","F","-","1",".","7">>}

PDFMiddles ==
    {<< >>,
     <<"s","t","a","r","t","x","r","e","f">>,
     <<"s","t","a","r","t","x","r","e">>,
     <<" ","t","r","a","i","l","e","r"," ","s","t","a","r","t","x","r","e","f","\n","1","2","\n">>}

PDFTails ==
    {<<"%","%","E","O","F">>,
     <<"%","%","E","O","F","\n">>,
     <<"%","%","E","O","F"," ","\t","\n">>,
     <<"%","%","E","O","F","x">>,
     <<"%","E","O","F">>,
     << >>,
     <<"%","%","E","O","F","\n","x">>,
     <<"%","%","E","O","F","\n","s","t","a","r","t","x","r","e","f","\n">>}

\* Lengths of the run of spaces after the end: none, one, the longest that
\* leaves the marker inside the last TailWindow bytes, and one more.
PadLengths == {0, 1, TailWindow - Len(PDFEOF), TailWindow - Len(PDFEOF) + 1}

Spaces(n) == [i \in 1..n |-> " "]

IsValidPDFInputs ==
    {[fn |-> "isValidPDF", done |-> FALSE, data |-> h \o m \o t \o Spaces(n), result |-> FALSE] :
        h \in PDFHeads, m \in PDFMiddles, t \in PDFTails, n \in PadLengths}

InitPDF ==
    /\ jwtToken = Empty
    /\ user = 0
    /\ authenticated = FALSE
    /\ stack = << >>
    /\ call \in IsValidPDFInputs

ApplyIsValidPDF ==
    /\ call.fn = "isValidPDF" /\ ~call.done
    /\ call' = [call EXCEPT !.done = TRUE, !.result = isValidPDF(call.data)]
    /\ UNCHANGED <<jwtToken, user, authenticated, stack>>

NextPDF == ApplyIsValidPDF

SpecPDF == InitPDF /\ [][NextPDF]_vars

(***************************************************************************)
(* The functions of the client that make no exchange, each applied on its  *)
(* own to inputs drawn from bounded sets: decodeError, NewEcloudClient and *)
(* GetHospitalSubscribers from the return of its performRequest on.  The   *)
(* repository holds two decoders named decodeError: the one over an        *)
(* io.Reader and the one over the *http.Response, which also formats the   *)
(* status code.                                                            *)
(***************************************************************************)
\* json.Unmarshal(body, &jsonErr) for bodies that are null, {}, a one-member
\* object {"k":"v"} or {"k":n}, or no JSON value: ok is err == nil, Error
\* the field after the call.  null and {} leave the field empty; a member is
\* matched to the field "error" without regard to case; a number for the
\* string field is a type error.
JSONUnmarshal(b) ==
    LET quote == "\""
        n == Len(b)
        NoQuote(s) == \A i \in 1..Len(s) : s[i] # quote
        AllDigits(s) == Len(s) > 0 /\ \A i \in 1..Len(s) : s[i] \in Digits
        IsObject == n >= 2 /\ SubSeq(b, 1, 2) = <<"{", quote>> /\ b[n] = "}"
        StringMembers ==
            {[key |-> SubSeq(b, 3, j - 1), value |-> SubSeq(b, j + 3, n - 2)] :
                j \in {i \in 3..(n - 4) :
                          /\ IsObject /\ b[n - 1] = quote
                          /\ SubSeq(b, i, i + 2) = <<quote, ":", quote>>
                          /\ NoQuote(SubSeq(b, 3, i - 1))
                          /\ NoQuote(SubSeq(b, i + 3, n - 2))}}
        NumberMembers ==
            {[key |-> SubSeq(b, 3, j - 1), value |-> SubSeq(b, j + 2, n - 1)] :
                j \in {i \in 3..(n - 3) :
                          /\ IsObject
                          /\ SubSeq(b, i, i + 1) = <<quote, ":">>
                          /\ NoQuote(SubSeq(b, 3, i - 1))
                          /\ AllDigits(SubSeq(b, i + 2, n - 1))}}
        IsErrorField(m) == ToLower(m.key) = <<"e","r","r","o","r">>
    IN  IF b = <<"n","u","l","l">> \/ b = <<"{","}">> THEN [ok |-> TRUE, Error |-> Empty]
        ELSE IF StringMembers # {} THEN
            LET m == CHOOSE x \in StringMembers : TRUE
            IN  [ok |-> TRUE, Error |-> IF IsErrorField(m) THEN m.value ELSE Empty]
        ELSE IF NumberMembers # {} THEN
            LET m == CHOOSE x \in NumberMembers : TRUE
            IN  [ok |-> ~IsErrorField(m), Error |-> Empty]
        ELSE [ok |-> FALSE, Error |-> Empty]

\* The texts of the errors.
FailedToRead == <<"f","a","i","l","e","d"," ","t","o"," ","r","e","a","d"," ","r","e","s","p","o","n","s","e"," ","b","o","d","y",":"," ">>
RemoteError == <<"r","e","m","o","t","e"," ","e","r","r","o","r",":"," ">>
EmptyResponseBody == <<"e","m","p","t","y"," ","r","e","s","p","o","n","s","e"," ","b","o","d","y">>

\* io.ReadAll(resp): the bytes read and the error, Empty for nil; a read
\* that fails ends with unexpected EOF.
ReadAll(body) ==
    [data |-> body.data, err |-> IF body.fails THEN <<"u","n","e","x","p","e","c","t","e","d"," ","E","O","F">> ELSE Empty]

\* Mutant: the empty body is reported as raw text.
decodeErrorNoEmpty(body) ==
    LET rd == ReadAll(body)
        jsonErr == JSONUnmarshal(rd.data)
    IN  IF rd.err # Empty THEN FailedToRead \o rd.err
        ELSE IF jsonErr.ok /\ jsonErr.Error # Empty THEN RemoteError \o jsonErr.Error
        ELSE RemoteError \o rd.data

\* decodeError over an io.Reader.
decodeError(body) ==
    LET rd == ReadAll(body)
        jsonErr == JSONUnmarshal(rd.data)
    IN  IF rd.err # Empty THEN FailedToRead \o rd.err
        ELSE IF jsonErr.ok /\ jsonErr.Error # Empty THEN RemoteError \o jsonErr.Error
        ELSE IF Len(rd.data) = 0 THEN EmptyResponseBody
        ELSE RemoteError \o rd.data

\* decodeError over the *http.Response.
decodeErrorResponse(status, body) ==
    LET rd == ReadAll(body)
        jsonErr == JSONUnmarshal(rd.data)
        prefix == <<"s","t","a","t","u","s","C","o","d","e","=">> \o Itoa(status)
    IN  IF rd.err # Empty THEN prefix \o <<":", " ">> \o FailedToRead \o rd.err
        ELSE IF jsonErr.ok /\ jsonErr.Error # Empty THEN prefix \o <<" ">> \o RemoteError \o jsonErr.Error
        ELSE IF Len(rd.data) = 0 THEN prefix \o <<" ">> \o RemoteError \o EmptyResponseBody
        ELSE prefix \o <<" ">> \o RemoteError \o rd.data

\* The bodies of error responses: what the decoder is told to do with each
\* is its class, msg the text that has to appear in the error.
ErrorBodies ==
    {[data |-> <<"{","\"","e","r","r","o","r","\"",":","\"","b","a","d"," ","l","o","g","i","n","\"","}">>, class |-> "message", msg |-> <<"b","a","d"," ","l","o","g","i","n">>],
     [data |-> <<"{","\"","E","r","r","o","r","\"",":","\"","d","e","n","i","e","d","\"","}">>, class |-> "message", msg |-> <<"d","e","n","i","e","d">>],
     [data |-> <<"{","\"","e","r","r","o","r","\"",":","\"","\"","}">>, class |-> "raw", msg |-> <<"{","\"","e","r","r","o","r","\"",":","\"","\"","}">>],
     [data |-> <<"{","\"","m","e","s","s","a","g","e","\"",":","\"","n","o","\"","}">>, class |-> "raw", msg |-> <<"{","\"","m","e","s","s","a","g","e","\"",":","\"","n","o","\"","}">>],
     [data |-> <<"{","\"","e","r","r","o","r","\"",":","5","}">>, class |-> "raw", msg |-> <<"{","\"","e","r","r","o","r","\"",":","5","}">>],
     [data |-> <<"{","\"","c","o","d","e","\"",":","5","}">>, class |-> "raw", msg |-> <<"{","\"","c","o","d","e","\"",":","5","}">>],
     [data |-> <<"{","}">>, class |-> "raw", msg |-> <<"{","}">>],
     [data |-> <<"n","u","l","l">>, class |-> "raw", msg |-> <<"n","u","l","l">>],
     [data |-> <<"B","a","d"," ","G","a","t","e","w","a","y">>, class |-> "raw", msg |-> <<"B","a","d"," ","G","a","t","e","w","a","y">>],
     [data |-> <<"\"","o","o","p","s","\"">>, class |-> "raw", msg |-> <<"\"","o","o","p","s","\"">>],
     [data |-> <<"{","\"","e","r","r","o","r","\"",":","\"","x","\"","}"," ","y">>, class |-> "raw", msg |-> <<"{","\"","e","r","r","o","r","\"",":","\"","x","\"","}"," ","y">>],
     [data |-> <<" ">>, class |-> "raw", msg |-> <<" ">>],
     [data |-> <<"e","m","p","t","y"," ","r","e","s","p","o","n","s","e"," ","b","o","d","y">>, class |-> "raw", msg |-> <<"e","m","p","t","y"," ","r","e","s","p","o","n","s","e"," ","b","o","d","y">>],
     [data |-> Empty, class |-> "empty", msg |-> Empty]}

\* The calls of the two decoders, on responses of five non-2xx statuses
\* whose body can or cannot be read to its end.
DecodeErrorInputs ==
    {[fn |-> "decodeError", done |-> FALSE, decoder |-> d, status |-> st,
      body |-> [data |-> b.data, fails |-> fl],
      class |-> IF fl THEN "read" ELSE b.class,
      msg |-> IF fl THEN ReadAll([data |-> b.data, fails |-> fl]).err ELSE b.msg,
      result |-> Empty] :
        d \in {"io.Reader", "http.Response"}, st \in {400, 401, 404, 500, 503},
        b \in ErrorBodies, fl \in BOOLEAN}

\* A domain operation answered with a non-2xx status returns
\* c.decodeError(resp) as it is.
ApplyDecodeError ==
    /\ call.fn = "decodeError" /\ ~call.done
    /\ call' = [call EXCEPT !.done = TRUE,
                            !.result = IF call.decoder = "io.Reader"
                                         THEN decodeError(call.body)
                                         ELSE decodeErrorResponse(call.status, call.body)]
    /\ UNCHANGED <<jwtToken, user, authenticated, stack>>

\* Config.Timeout, in seconds, that replaces 0.
DefaultTimeout == 30

\* The Configs: each string field empty or set, Timeout 0 or set,
\* RetryPolicy nil or a policy of the caller's.
Configs ==
    LET ConfigStrings == {Empty, <<"v">>}
    IN  [ApiBaseUrl : ConfigStrings, EclinicId : ConfigStrings, Password : ConfigStrings,
         HospitalNumber : ConfigStrings, HospitalName : ConfigStrings,
         EclinicBaseUrl : ConfigStrings, Timeout : {0, 5}, RetryPolicy : {"nil", "custom"}]

\* Config.Validate: the error, "nil" for none.
ConfigValidate(c) ==
    IF c.ApiBaseUrl = Empty THEN "ErrApiBaseURLRequired"
    ELSE IF c.EclinicId = Empty THEN "ErrEclinicIDRequired"
    ELSE IF c.Password = Empty THEN "ErrEcloudPasswordRequired"
    ELSE IF c.HospitalNumber = Empty THEN "ErrHospitalNumberRequired"
    ELSE IF c.HospitalName = Empty THEN "ErrHospitalNameRequired"
    ELSE IF c.EclinicBaseUrl = Empty THEN "ErrEclinicBaseURL"
    ELSE "nil"

\* NewEcloudClient(config): the client and the error.  A Config that
\* passed Validate has its defaults written into it.
NewEcloudClient(c) ==
    LET config == [c EXCEPT !.Timeout = IF @ = 0 THEN DefaultTimeout ELSE @,
                            !.RetryPolicy = IF @ = "nil" THEN "default" ELSE @]
    IN  IF ConfigValidate(c) # "nil"
        THEN [client |-> [isNil |-> TRUE], err |-> ConfigValidate(c)]
        ELSE [client |-> [isNil |-> FALSE, config |-> config,
                          retryPolicy |-> config.RetryPolicy],
              err |-> "nil"]

NewEcloudClientInputs ==
    {[fn |-> "NewEcloudClient", done |-> FALSE, config |-> c,
      result |-> [client |-> [isNil |-> TRUE], err |-> "nil"]] : c \in Configs}

ApplyNewEcloudClient ==
    /\ call.fn = "NewEcloudClient" /\ ~call.done
    /\ call' = [call EXCEPT !.done = TRUE, !.result = NewEcloudClient(call.config)]
    /\ UNCHANGED <<jwtToken, user, authenticated, stack>>

\* The bytes [ ] , and 0 in ASCII: the bodies of GetHospitalSubscribers are
\* sequences of byte values.
LeftBracket == 91
RightBracket == 93
Comma == 44
Zero == 48

\* The lists of subscribers a server holds, each subscriber shortened to
\* its id, 1 or 2.
MaxSubscribers == 3
SubscriberLists == UNION {[1..n -> {1, 2}] : n \in 0..MaxSubscribers}

\* The server's JSON for a list: [1,2]
SubscribersJSON(list) ==
    <<LeftBracket>>
    \o [i \in 1..(IF Len(list) = 0 THEN 0 ELSE 2 * Len(list) - 1) |->
            IF i % 2 = 1 THEN Zero + list[(i + 1) \div 2] ELSE Comma]
    \o <<RightBracket>>

\* json.NewDecoder(resp.Body).Decode(&subscribers): ok is err == nil.
DecodeSubscribers(b) ==
    LET n == Len(b)
        wellFormed ==
            /\ n >= 2 /\ b[1] = LeftBracket /\ b[n] = RightBracket
            /\ (n = 2 \/ n % 2 = 1)
            /\ \A i \in 2..(n - 1) :
                  IF i % 2 = 0 THEN b[i] - Zero \in 1..9 ELSE b[i] = Comma
    IN  IF wellFormed
        THEN [ok |-> TRUE, subscribers |-> [i \in 1..((n - 1) \div 2) |-> b[2 * i] - Zero]]
        ELSE [ok |-> FALSE, subscribers |-> << >>]

\* GetHospitalSubscribers from the return of performRequest on: the list
\* and the error.
GetHospitalSubscribers(a) ==
    IF a.err # "nil" THEN [subscribers |-> << >>, err |-> "request failed"]
    ELSE IF a.resp.status # StatusOK THEN [subscribers |-> << >>, err |-> "remote error"]
    ELSE LET d == DecodeSubscribers(a.resp.body)
         IN  IF ~d.ok THEN [subscribers |-> << >>, err |-> "unable to decode json"]
             ELSE [subscribers |-> d.subscribers, err |-> "nil"]

\* What performRequest hands back to GetHospitalSubscribers: an error, or a
\* response with its status, its Content-Encoding header and its body, the
\* JSON of a list, plain or gzip-encoded.
GetHospitalSubscribersInputs ==
    {[fn |-> "GetHospitalSubscribers", done |-> FALSE,
      answer |-> [list |-> l, gzip |-> gz, err |-> e,
                  resp |-> [status |-> st,
                            contentEncoding |-> IF gz THEN GzipStr ELSE Empty,
                            body |-> IF gz THEN Gzip(SubscribersJSON(l))
                                     ELSE SubscribersJSON(l)]],
      result |-> [subscribers |-> << >>, err |-> "nil"]] :
        l \in SubscriberLists, gz \in BOOLEAN, e \in {"nil", "transport"},
        st \in {StatusOK, 404, 500}}

ApplyGetHospitalSubscribers ==
    /\ call.fn = "GetHospitalSubscribers" /\ ~call.done
    /\ call' = [call EXCEPT !.done = TRUE, !.result = GetHospitalSubscribers(call.answer)]
    /\ UNCHANGED <<jwtToken, user, authenticated, stack>>

\* A caller's map that spells the key in lower case.
MultipartLowerKeyHeaders == [k \in {"content-type"} |-> MultipartFormData \o BoundarySuffix]

\* The request performRequest builds for its first attempt: the headers on
\* the wire and the bytes handed to NewRequest.
FirstRequest(hasBody, body, headers, gz) ==
    LET f == NewFrame("Request", "top", hasBody, body, headers, gz)
    IN [headers |-> ReqHeaders(f), body |-> f.req.body, hasBody |-> hasBody]

PerformRequestInputs ==
    {[fn |-> "performRequest", done |-> FALSE,
      hasBody |-> hb, body |-> RequestBody, headers |-> h, gzipCompress |-> gz,
      result |-> [headers |-> NoHeaders, body |-> Empty, hasBody |-> FALSE]] :
        hb \in BOOLEAN, gz \in {"absent", "true", "false"},
        h \in {NoHeaders, MultipartHeaders, MultipartUpperHeaders,
               MultipartLowerKeyHeaders, TextHeaders, CustomHeaders}}

ApplyPerformRequest ==
    /\ call.fn = "performRequest" /\ ~call.done
    /\ call' = [call EXCEPT !.done = TRUE,
                            !.result = FirstRequest(call.hasBody, call.body,
                                                    call.headers, call.gzipCompress)]
    /\ UNCHANGED <<jwtToken, user, authenticated, stack>>

InitUnit ==
    /\ jwtToken = Empty
    /\ user = 0
    /\ authenticated = FALSE
    /\ stack = << >>
    /\ call \in DecodeErrorInputs \cup NewEcloudClientInputs \cup GetHospitalSubscribersInputs
                \cup PerformRequestInputs

NextUnit ==
    \/ ApplyDecodeError
    \/ ApplyNewEcloudClient
    \/ ApplyGetHospitalSubscribers
    \/ ApplyPerformRequest

SpecUnit == InitUnit /\ [][NextUnit]_vars

(***************************************************************************)
(* The retry loop of performRequest on its own, with the policy plugged    *)
(* into the client, the caller's context and the bodies of the responses.  *)
(* The sleep is followed second by second.  c.Refresh(ctx), which the      *)
(* client specification follows exchange by exchange, is one step here     *)
(* with its two results.                                                   *)
(***************************************************************************)
\* Config.RetryPolicy: nil gives the default policy; a policy of the
\* caller's answers ShouldRetry always or never, gives one second as
\* BackoffDuration and the number it likes as MaxRetries.
Policies ==
    {[kind |-> "default", maxRetries |-> maxRetries]}
    \cup {[kind |-> k, maxRetries |-> m] : k \in {"always", "never"}, m \in {0 - 1, 0, 1}}

\* c.retryPolicy.ShouldRetry(attempt, err, resp)
PolicyShouldRetry(p, attempt, err, resp) ==
    IF p.kind = "default" THEN ShouldRetry(attempt, err, resp) ELSE p.kind = "always"

\* c.retryPolicy.BackoffDuration(attempt)
PolicyBackoffDuration(p, attempt) ==
    IF p.kind = "default" THEN BackoffDuration(attempt) ELSE Int64(Second)

\* c.retryPolicy.MaxRetries()
PolicyMaxRetries(p) == IF p.kind = "default" THEN MaxRetries ELSE p.maxRetries

\* return resp, err
LoopReturn(c, resp, err) == [c EXCEPT !.pc = "ret", !.result = [resp |-> resp, err |-> err]]

\* After the loop: lastResp if there is one, else lastErr.
LoopAfter(c) ==
    IF c.lastResp # NoResp THEN LoopReturn(c, c.lastResp, NoErr)
    ELSE LoopReturn(c, NoResp, c.lastErr)

\* The loop test and, when it passes, the request of the attempt.
LoopIterate(c) ==
    IF c.attempt <= PolicyMaxRetries(c.policy) THEN [c EXCEPT !.pc = "do"] ELSE LoopAfter(c)

\* time.Sleep(c.retryPolicy.BackoffDuration(attempt)) begins.
LoopSleep(c) ==
    [c EXCEPT !.pc = "sleep", !.backoff = PolicyBackoffDuration(c.policy, c.attempt),
              !.elapsed = 0]

\* The sleep has lasted as long as asked.
SleepOver(c) == LessEq64(c.backoff, Mul64(Int64(c.elapsed), Int64(Second)))

\* performRequest is called, on a client that is authenticated or not:
\* nothing obtained, no body open.
InitLoop ==
    /\ authenticated \in BOOLEAN
    /\ jwtToken = IF authenticated THEN T1 ELSE Empty
    /\ user = IF authenticated THEN 1 ELSE 0
    /\ stack = << >>
    /\ call \in {[fn |-> "performRequest", policy |-> p, pc |-> "loop", attempt |-> 0,
                  cancelled |-> FALSE, backoff |-> Int64(0), elapsed |-> 0,
                  lastErr |-> NoErr, lastResp |-> NoResp,
                  obtained |-> {}, open |-> {},
                  result |-> [resp |-> NoResp, err |-> NoErr]] : p \in Policies}

\* performRequest up to its first exchange, or to its return when the loop
\* is not entered.
LoopEnter ==
    /\ call.fn = "performRequest" /\ call.pc = "loop"
    /\ call' = LoopIterate(call)
    /\ UNCHANGED <<jwtToken, user, authenticated, stack>>

\* The caller cancels the context while an exchange or a sleep is under way.
CancelContext ==
    /\ call.fn = "performRequest" /\ call.pc \in {"do", "sleep"} /\ ~call.cancelled
    /\ call' = [call EXCEPT !.cancelled = TRUE]
    /\ UNCHANGED <<jwtToken, user, authenticated, stack>>

\* httpClient.Do returns an error: the context's once it is cancelled, else
\* a transport error, or a failed redirect, which comes with the response,
\* its body already closed by http.Client.
LoopDoError ==
    /\ call.fn = "performRequest" /\ call.pc = "do"
    /\ \E kind \in IF call.cancelled THEN {"context canceled"} ELSE {"transport", "redirect"} :
          LET err == TransportErr(kind, call.attempt)
              resp == IF kind = "redirect" THEN Response(302, call.attempt, Empty, 0, TRUE)
                      ELSE NoResp
              c == [call EXCEPT !.lastErr = err, !.lastResp = resp,
                                !.obtained = IF resp # NoResp THEN @ \cup {call.attempt} ELSE @]
          IN call' = IF ~PolicyShouldRetry(c.policy, c.attempt, err, resp)
                     THEN LoopAfter(c) ELSE LoopSleep(c)
    /\ UNCHANGED <<jwtToken, user, authenticated, stack>>

\* httpClient.Do returns a response, its body open, that starts no refresh:
\* return resp, nil.
LoopDoResponse ==
    /\ call.fn = "performRequest" /\ call.pc = "do" /\ ~call.cancelled
    /\ \E st \in {StatusOK, StatusUnauthorized, 500} :
          LET resp == Response(st, call.attempt, Empty, 0, TRUE)
          IN  /\ ~NeedsRefresh(resp)
              /\ call' = LoopReturn([call EXCEPT !.obtained = @ \cup {call.attempt},
                                                 !.open = @ \cup {call.attempt}],
                                    resp, NoErr)
    /\ UNCHANGED <<jwtToken, user, authenticated, stack>>

\* A 401 while authenticated and c.Refresh(ctx) fails: return resp, nil.
LoopRefreshFailed ==
    /\ call.fn = "performRequest" /\ call.pc = "do" /\ ~call.cancelled
    /\ LET resp == Response(StatusUnauthorized, call.attempt, Empty, 0, TRUE)
       IN  /\ NeedsRefresh(resp)
           /\ call' = LoopReturn([call EXCEPT !.obtained = @ \cup {call.attempt},
                                              !.open = @ \cup {call.attempt}],
                                 resp, NoErr)
    /\ UNCHANGED <<jwtToken, user, authenticated, stack>>

\* A 401 while authenticated and c.Refresh(ctx) succeeds: the credential is
\* that of the new login; if the policy says so the body is closed and the
\* sleep begins, else return resp, nil.
LoopRefreshSucceeded ==
    /\ call.fn = "performRequest" /\ call.pc = "do" /\ ~call.cancelled
    /\ LET resp == Response(StatusUnauthorized, call.attempt, Empty, 0, TRUE)
           c == [call EXCEPT !.obtained = @ \cup {call.attempt}, !.open = @ \cup {call.attempt}]
       IN  /\ NeedsRefresh(resp)
           /\ call' = IF PolicyShouldRetry(c.policy, c.attempt, NoErr, resp)
                      THEN LoopSleep([c EXCEPT !.open = @ \ {call.attempt}])
                      ELSE LoopReturn(c, resp, NoErr)
    /\ jwtToken' = T2 /\ user' = 2 /\ authenticated' = TRUE
    /\ UNCHANGED stack

\* One more second of time.Sleep goes by; the context is not looked at.
SleepTick ==
    /\ call.fn = "performRequest" /\ call.pc = "sleep" /\ ~SleepOver(call)
    /\ call' = [call EXCEPT !.elapsed = @ + 1]
    /\ UNCHANGED <<jwtToken, user, authenticated, stack>>

\* time.Sleep returns; continue: attempt++, the loop test, the next request.
SleepReturn ==
    /\ call.fn = "performRequest" /\ call.pc = "sleep" /\ SleepOver(call)
    /\ call' = LoopIterate([call EXCEPT !.attempt = NextAttempt(@), !.elapsed = 0,
                                        !.backoff = Int64(0)])
    /\ UNCHANGED <<jwtToken, user, authenticated, stack>>

NextLoop ==
    \/ LoopEnter
    \/ CancelContext
    \/ LoopDoError
    \/ LoopDoResponse
    \/ LoopRefreshFailed
    \/ LoopRefreshSucceeded
    \/ SleepTick
    \/ SleepReturn

SpecLoop == InitLoop /\ [][NextLoop]_vars

(***************************************************************************)
(* Properties.                                                             *)
(***************************************************************************)
\* The frames whose performRequest has a request in flight or is waiting
\* for the Refresh that the answer to it started.
InFlight(f) == f.pc \in {"do", "refresh"}

\* The caller's header map holds a key that Set stores under key k.
CallerSets(f, k) == \E x \in DOMAIN f.headers : CanonicalKey(x) = k

\* C1: a 5xx response is returned by performRequest only from the attempt
\* at the policy's ceiling; below the ceiling a 5xx leads to a further attempt.
C1_ServerErrorRetried ==
    \A f \in Frames :
        (f.pc = "pret" /\ f.pres.err = NoErr /\ f.pres.resp.status >= 500)
            => f.attempt >= MaxRetries

\* C2: when every exchange of a call failed with a transport error,
\* performRequest has made exactly maxRetries+1 attempts, the last one with
\* index maxRetries, and returns no response and the last transport error.
C2_AllTransportErrors ==
    \A f \in Frames :
        (f.pc = "pret" /\ f.onlyNet)
            => /\ f.nsent = MaxRetries + 1
               /\ f.attempt = MaxRetries
               /\ f.pres.resp = NoResp
               /\ f.pres.err = TransportErr("transport", MaxRetries)

C2_Witness ==
    \E f \in Frames :
        f.pc = "pret" /\ f.onlyNet /\ f.nsent = MaxRetries + 1 /\ f.pres.err.kind = "transport"

C4_FailedRefreshReturns401 ==
    \A f \in Frames :
        f.outcome = "refreshfailed"
            => /\ f.pc = "pret"
               /\ f.pres.err = NoErr
               /\ f.pres.resp = Response(StatusUnauthorized, f.attempt, Empty, 0, TRUE)
               /\ f.nsent = f.attempt + 1
               /\ f.errLogs = 1

C4_Witness ==
    \E f \in Frames : f.outcome = "refreshfailed" /\ f.pc = "pret" /\ f.attempt > 0

\* C5: one performRequest call sends its request at most maxRetries+1
\* times, and the k-th request it sends has attempt index k-1.
C5_AttemptsBounded ==
    \A f \in Frames :
        /\ f.nsent <= MaxRetries + 1
        /\ InFlight(f) => (f.req.att = f.nsent - 1 /\ f.attempt = f.req.att)

C5_Witness ==
    \E f \in Frames : f.pc = "do" /\ f.nsent = MaxRetries + 1 /\ f.req.att = MaxRetries

\* C6: every attempt of a call carries the same body bytes as its first
\* attempt.
C6_SameBodyEveryAttempt ==
    \A f \in Frames : InFlight(f) => f.req.body = f.firstBody

\* C7: when the caller supplies no Content-Encoding, an attempt carries
\* Content-Encoding: gzip exactly when its body was gzip-compressed by the
\* executor.
C7_ContentEncodingIffCompressed ==
    \A f \in Frames :
        (InFlight(f) /\ ~CallerSets(f, "Content-Encoding"))
            => ((HeaderGet(ReqHeaders(f), "Content-Encoding") = GzipStr)
                    <=> (f.hasBody /\ f.firstBody = Gzip(f.body)))

\* C8: when the caller's Content-Type starts with multipart/form-data,
\* compared without regard to case, the body handed to the transport is the
\* caller's body, byte for byte.
C8_MultipartBodyUntouched ==
    \A f \in Frames :
        (InFlight(f)
         /\ HasPrefix(ToLower(MapGet(f.headers, "Content-Type")), MultipartFormData))
            => f.req.body = f.body

\* C9: in every state, also between the field updates of a login,
\* authenticated implies a non-empty token.
C9_AuthenticatedHasToken == authenticated => jwtToken # Empty

C9_Witness ==
    /\ authenticated
    /\ \E f \in Frames :
          f.pc = "tokenset" /\ jwtToken = f.loginResp.tok /\ user # f.loginResp.uid

\* C10: when Login (or Refresh, which is Login) returns an error the
\* credential is what it was when the call began, and when it succeeds the
\* credential is that of the login response it decoded.
C10_LoginAllOrNothing ==
    \A f \in Frames :
        (f.op = "Login" /\ f.pc = "ret")
            => IF f.res = "ok"
               THEN Cred = [tok |-> f.loginResp.tok, uid |-> f.loginResp.uid, auth |-> TRUE]
               ELSE Cred = f.cred0

\* C11: a Login that returned successfully with token t leaves the client
\* authenticated with token t; every request sent without a caller-supplied
\* Authorization header carries Authorization: Bearer <the client's token>,
\* and the client's token changes only when a login that succeeds stores
\* the token of its response; a client that has never logged in
\* successfully sends no Authorization header.
C11_RequestsCarryLoginToken ==
    /\ [](\A f \in Frames :
            /\ (f.op = "Login" /\ f.pc = "ret" /\ f.res = "ok")
                  => (authenticated /\ jwtToken = f.loginResp.tok)
            /\ (f.pc = "do" /\ ~CallerSets(f, "Authorization"))
                  => IF authenticated
                     THEN HeaderGet(ReqHeaders(f), "Authorization") = BearerPrefix \o jwtToken
                     ELSE "Authorization" \notin DOMAIN ReqHeaders(f))
    /\ [][jwtToken' # jwtToken
             => /\ Depth > 0 /\ Top.op = "Login" /\ Top.pc = "decoded"
                /\ Top.loginResp.tok # Empty
                /\ jwtToken' = Top.loginResp.tok]_vars

C11_Witness ==
    \E f \in Frames :
        /\ f.op = "Request" /\ f.pc = "do" /\ ~CallerSets(f, "Authorization")
        /\ authenticated /\ jwtToken = T2
        /\ HeaderGet(ReqHeaders(f), "Authorization") = BearerPrefix \o T2

\* C12: a login whose 200 response decodes to an empty token fails with
\* ErrEmptyToken, which is none of the errors for a status, a transport
\* failure or a decode failure; the exchange that was answered is the last
\* one of the call, and the credential is what it was when the call began.
C12_EmptyTokenNoRetryNoChange ==
    \A f \in Frames :
        /\ (/\ f.op = "Login" /\ f.pc = "pret" /\ f.pres.err = NoErr
            /\ f.pres.resp.status = StatusOK /\ f.pres.resp.json /\ f.pres.resp.tok = Empty)
              => /\ LoginError(f.pres) = "emptytoken"
                 /\ f.pres.resp.att = f.attempt /\ f.nsent = f.attempt + 1
                 /\ Cred = f.cred0
        /\ (f.op = "Login" /\ f.pc = "ret" /\ f.res = "emptytoken") => Cred = f.cred0

C14_LastResponseWins ==
    \A f \in Frames :
        (f.pc = "pret" /\ f.outcome \in {"neterr", "redirect"})
            => IF f.got # NoResp
               THEN f.pres = [resp |-> f.got, err |-> NoErr]
               ELSE f.pres = [resp |-> NoResp, err |-> TransportErr("transport", f.attempt)]

\* C15: ShouldRetry(a, err, resp) is true exactly when a < maxRetries and
\* (err is non-nil, or the response status is >= 500, or it is 401); so it
\* is false for every a >= maxRetries and, without a transport error, for
\* every 2xx and every 4xx other than 401.
C15_ShouldRetryTable ==
    (call.fn = "ShouldRetry" /\ call.done)
        => /\ call.result
                <=> /\ call.attempt < 3
                    /\ \/ call.err.kind # "nil"
                       \/ call.resp.status >= 500
                       \/ call.resp.status = 401
           /\ call.attempt >= 3 => ~call.result
           /\ (call.err.kind = "nil" /\ call.resp.status \in (200..299) \cup (400..499)
               /\ call.resp.status # 401) => ~call.result

C15_Witness ==
    /\ call.fn = "ShouldRetry" /\ call.done /\ call.result
    /\ call.attempt = 2 /\ call.err.kind = "nil" /\ call.resp.status = 401

\* The exact value of a * a seconds in nanoseconds, on sixteen bytes.
C16_Exact(a) == Mul(Mul(Bytes(a, 16), Bytes(a, 16), 16), Bytes(Second, 16), 16)

\* C16: BackoffDuration(a) is a squared seconds for every non-negative
\* attempt index a, and BackoffDuration(a) <= BackoffDuration(a + 1).
C16_BackoffQuadraticMonotone ==
    (call.fn = "BackoffDuration" /\ call.done)
        => /\ ~Negative64(call.result)
           /\ call.result \o [i \in 1..8 |-> 0] = C16_Exact(call.attempt)
           /\ LessEq64(call.result, BackoffDuration(call.attempt + 1))

\* The last byte of b that is not whitespace, 0 when there is none.
C20_LastInk(b) ==
    LET ink == {j \in 1..Len(b) : b[j] \notin Whitespace}
    IN IF ink = {} THEN 0 ELSE CHOOSE j \in ink : \A k \in ink : k <= j

\* The last 1024 bytes of b, or all of b when it is shorter.
C20_Last1024(b) == [i \in 1..(IF Len(b) < 1024 THEN Len(b) ELSE 1024) |->
                       b[Len(b) - (IF Len(b) < 1024 THEN Len(b) ELSE 1024) + i]]

\* C20: isValidPDF(b) is true exactly when b has at least 8 bytes, begins
\* with %PDF-1. and a digit, its last 1024 bytes (all of b when shorter) end
\* with %%EOF followed by whitespace only, and b contains startxref.
C20_IsValidPDFExactly ==
    (call.fn = "isValidPDF" /\ call.done)
        => (call.result
              <=> /\ Len(call.data) >= 8
                  /\ SubSeq(call.data, 1, 7) = <<"%","P","D","F","-","1",".">>
                  /\ call.data[8] \in Digits
                  /\ LET t == C20_Last1024(call.data)
                         m == C20_LastInk(t)
                     IN m >= 5 /\ SubSeq(t, m - 4, m) = <<"%","%","E","O","F">>
                  /\ \E i \in 1..Len(call.data) :
                        /\ i + 8 <= Len(call.data)
                        /\ \A k \in 0..8 :
                              call.data[i + k] = <<"s","t","a","r","t","x","r","e","f">>[k + 1])

C20_Witness ==
    /\ call.fn = "isValidPDF" /\ call.done /\ call.result
    /\ Len(call.data) > 1024

\* The SyncMedicalRecords calls whose record is valid but for its attachments.
SyncOf(f) ==
    /\ f.op = "Sync" /\ ~f.rec.isNil
    /\ f.rec.VisitID # 0 /\ f.rec.SubscriberID # 0 /\ f.rec.Title # Empty
    /\ f.rec.VisitTimestamp # ZeroTime

\* The five scalar fields of a record's upload.
FiveFields(pr) ==
    <<[field |-> "hospital_number", file |-> "", data |-> HospitalNumber],
      [field |-> "visit_id", file |-> "", data |-> Itoa(pr.VisitID)],
      [field |-> "subscriber_id", file |-> "", data |-> Itoa(pr.SubscriberID)],
      [field |-> "visit_timestamp", file |-> "", data |-> FormatRFC3339(pr.VisitTimestamp)],
      [field |-> "title", file |-> "", data |-> pr.Title]>>

PDFErrors == {"ErrInvalidMedicalReportPDF", "ErrInvalidLabReportPDF"}

\* C17: SyncMedicalRecords on an otherwise valid record with exactly one
\* attachment, which is a valid PDF, whether the medical report or the lab
\* report, assembles the body and sends a request whose body is that
\* attachment as the one file part, under its own field name, and the five
\* scalar fields.
C17_OneAttachmentUploaded ==
    \A f \in Frames :
        /\ (/\ SyncOf(f)
            /\ f.rec.MedicalReport.present /\ isValidPDF(f.rec.MedicalReport.data)
            /\ ~f.rec.LabReport.present)
              => /\ f.hasBody
                 /\ f.body = <<[field |-> "medical_report", file |-> "medical_report.pdf",
                                data |-> f.rec.MedicalReport.data]>> \o FiveFields(f.rec)
                 /\ InFlight(f) => f.firstBody = f.body
        /\ (/\ SyncOf(f)
            /\ f.rec.LabReport.present /\ isValidPDF(f.rec.LabReport.data)
            /\ ~f.rec.MedicalReport.present)
              => /\ f.hasBody
                 /\ f.body = <<[field |-> "lab_report", file |-> "lab_report.pdf",
                                data |-> f.rec.LabReport.data]>> \o FiveFields(f.rec)
                 /\ InFlight(f) => f.firstBody = f.body

\* C18: when an attachment that is present fails isValidPDF, SyncMedicalRecords
\* sends nothing and returns the error of an attachment that failed:
\* ErrInvalidMedicalReportPDF for the medical report, ErrInvalidLabReportPDF
\* for the lab report.
C18_InvalidAttachmentRejected ==
    \A f \in Frames :
        LET badMedical == f.rec.MedicalReport.present /\ ~isValidPDF(f.rec.MedicalReport.data)
            badLab == f.rec.LabReport.present /\ ~isValidPDF(f.rec.LabReport.data)
        IN (SyncOf(f) /\ (badMedical \/ badLab))
              => /\ f.pc = "ret" /\ ~f.hasBody /\ f.nsent = 0
                 /\ \/ badMedical /\ f.res = "ErrInvalidMedicalReportPDF"
                    \/ badLab /\ f.res = "ErrInvalidLabReportPDF"

\* C19: SyncMedicalRecords with both attachments absent returns a validation
\* error, which is neither of the invalid-PDF errors, with nothing written
\* to the multipart body and no request sent.
C19_NoAttachmentRejected ==
    \A f \in Frames :
        (/\ f.op = "Sync" /\ ~f.rec.isNil
         /\ ~f.rec.MedicalReport.present /\ ~f.rec.LabReport.present)
            => /\ f.pc = "ret" /\ ~f.hasBody /\ f.body = << >> /\ f.nsent = 0
               /\ f.res \notin PDFErrors
               /\ SyncOf(f)
                     => f.res = "validation error: no medical report or laboratory report to upload"

C19_Witness ==
    \E f \in Frames :
        /\ SyncOf(f) /\ ~f.rec.MedicalReport.present /\ ~f.rec.LabReport.present
        /\ f.pc = "ret" /\ f.nsent = 0
        /\ f.res = "validation error: no medical report or laboratory report to upload"

\* The text s ends with the text p.
HasSuffix(s, p) == Len(s) >= Len(p) /\ SubSeq(s, Len(s) - Len(p) + 1, Len(s)) = p

C22_ErrorsCarryStatus ==
    (call.fn = "decodeError" /\ call.done) => Contains(call.result, Itoa(call.status))

\* C23: a CreatePayment with subscriberID 0, a negative amount or an empty
\* registeredBy ends with an error, and its call has built and sent no
\* request.
C23_PaymentValidatedBeforeRequest ==
    \A f \in Frames :
        (/\ f.op = "Payment"
         /\ (f.rec.subscriberID = 0 \/ f.rec.amountToPay < 0 \/ f.rec.registeredBy = Empty))
            => /\ f.pc = "ret" /\ f.res \notin {"none", "ok"}
               /\ f.nsent = 0 /\ f.req = NoReq /\ f.got = NoResp

\* A CreatePayment whose only fault is the negative amount has returned.
C23_Witness ==
    \E f \in Frames :
        /\ f.op = "Payment" /\ f.pc = "ret"
        /\ f.rec.subscriberID # 0 /\ f.rec.amountToPay < 0 /\ f.rec.registeredBy # Empty

\* C24: NewEcloudClient gives a client and no error for every Config whose
\* ApiBaseUrl, EclinicId, Password, HospitalNumber and HospitalName are all
\* set, and ErrApiBaseURLRequired for the Config with nothing set.
C24_FiveFieldsSuffice ==
    (call.fn = "NewEcloudClient" /\ call.done) =>
        LET c == call.config
        IN  /\ (/\ c.ApiBaseUrl # Empty /\ c.EclinicId # Empty /\ c.Password # Empty
                /\ c.HospitalNumber # Empty /\ c.HospitalName # Empty)
                  => (~call.result.client.isNil /\ call.result.err = "nil")
            /\ (/\ c.ApiBaseUrl = Empty /\ c.EclinicId = Empty /\ c.Password = Empty
                /\ c.HospitalNumber = Empty /\ c.HospitalName = Empty
                /\ c.EclinicBaseUrl = Empty)
                  => (call.result.client.isNil /\ call.result.err = "ErrApiBaseURLRequired")

\* C25: for a 200 answer GetHospitalSubscribers returns the server's list
\* without error, whether the body came plain or gzip-encoded and marked
\* Content-Encoding: gzip.
C25_GzipResponseDecoded ==
    (/\ call.fn = "GetHospitalSubscribers" /\ call.done
     /\ call.answer.err = "nil" /\ call.answer.resp.status = StatusOK)
        => (call.result.err = "nil" /\ call.result.subscribers = call.answer.list)

\* C27: whoever reads the credential while a Login or Refresh runs sees the
\* complete prior (token, identity, authenticated) or the complete new one:
\* every step that changes the credential puts the whole credential of the
\* login response in place at once.
C27_CredentialReplacedAtOnce ==
    [][Cred' # Cred =>
          Cred' = [tok |-> Top.loginResp.tok, uid |-> Top.loginResp.uid, auth |-> TRUE]]_vars

\* C29: every performRequest, Login and Refresh ends after finitely many
\* exchanges whatever the server answers.  For that a Login whose login
\* exchange is answered 401 while the client is authenticated must not run
\* Login again inside itself on the same credential: the inner Login would
\* send the same exchange from the same state, meet the same answer, and so
\* on without end.
C29_LoginNotReentered ==
    \A i, j \in 1..Depth :
        (i < j /\ stack[i].op = "Login" /\ stack[j].op = "Login")
            => stack[j].cred0 # stack[i].cred0

\* C26: once the context is cancelled performRequest does nothing but
\* return: the sleep in progress is cut short, no further sleep and no
\* further attempt begins.
C26_CancelEndsCall ==
    [][(call.fn = "performRequest" /\ call.cancelled /\ call.pc # "ret")
          => call'.pc = "ret"]_vars

\* C28: when performRequest returns, the body of the response it returns
\* is open and the body of every other response it obtained is closed; and
\* while an attempt is under way no body of an earlier attempt is open.
C28_BodiesClosedButReturned ==
    (call.fn = "performRequest") =>
        /\ call.pc = "do" => call.open = {}
        /\ call.pc = "ret" =>
              /\ \A a \in call.obtained :
                    (call.result.resp = NoResp \/ a # call.result.resp.att) => a \notin call.open
              /\ call.result.resp # NoResp => call.result.resp.att \in call.open

\* C30: whatever policy is plugged in, performRequest returns a response
\* or an error.
C30_NeverBothNil ==
    (call.fn = "performRequest" /\ call.pc = "ret")
        => (call.result.resp # NoResp \/ call.result.err # NoErr)

\* C31: while the client is not authenticated no Refresh (no login exchange
\* on behalf of a 401) runs, and a 401 is returned by performRequest from
\* the attempt that obtained it, without retry; a Login whose first exchange
\* is answered 401 has then sent exactly one request.
C31_Unauthenticated401Returned ==
    ~authenticated =>
        \A f \in Frames :
            /\ f.via # "refresh" /\ f.pc # "refresh"
            /\ (f.pc = "pret" /\ f.got.status = StatusUnauthorized) =>
                  /\ f.pres = [resp |-> f.got, err |-> NoErr]
                  /\ f.got.att = f.attempt /\ f = Top
                  /\ f.got.att = 0 => f.nsent = 1

\* The Login of a client never authenticated has been answered 401 at its
\* first exchange and performRequest has returned.
C31_Witness ==
    /\ ~authenticated /\ Depth = 1
    /\ Top.op = "Login" /\ Top.pc = "pret"
    /\ Top.got.status = StatusUnauthorized /\ Top.got.att = 0

\* C32: the stored token, identity and authenticated flag change during a
\* performRequest only while that call waits for the Refresh which a 401
\* it received has started; a call that receives no 401 leaves them as
\* they were, whatever transport errors and other statuses it meets.
C32_CredentialChangesOnlyAfter401 ==
    [][\A i \in 1..Depth :
          (InFlight(stack[i]) /\ Cred' # Cred)
              => (stack[i].pc = "refresh" /\ stack[i].got.status = StatusUnauthorized)]_vars

\* An authenticated client's request has met a transport error and then a
\* 500, and has returned with the credential it started with.
C32_Witness ==
    /\ authenticated /\ Depth = 1
    /\ Top.op = "Request" /\ Top.pc = "pret" /\ Top.attempt >= 1
    /\ Top.got.status = 500 /\ Cred = Top.cred0

\* C33: the attempt index moves from a to a+1 only out of a sleep that has
\* lasted BackoffDuration(a), and a sleep begins only out of an exchange, so
\* that there is exactly one wait between two attempts; no sleep begins
\* after the final attempt, the one with index MaxRetries; under the default
\* policy the sleep after attempt 0 lasts no time.
C33_OneBackoffBetweenAttempts ==
    [][call.fn = "performRequest" =>
          /\ call'.attempt # call.attempt =>
                /\ call.pc = "sleep" /\ SleepOver(call)
                /\ call.backoff = PolicyBackoffDuration(call.policy, call.attempt)
                /\ call'.attempt = call.attempt + 1
          /\ (call'.pc = "sleep" /\ call.pc # "sleep") =>
                /\ call.pc = "do"
                /\ call'.attempt < PolicyMaxRetries(call.policy)
          /\ (call'.pc = "sleep" /\ call'.attempt = 0 /\ call.policy.kind = "default") =>
                SleepOver(call')]_vars

\* The field names of a multipart body in the order the claim gives them.
PartOrder ==
    <<"medical_report", "lab_report", "hospital_number", "visit_id",
      "subscriber_id", "visit_timestamp", "title">>

PartRank(field) == CHOOSE i \in 1..Len(PartOrder) : PartOrder[i] = field

\* C34: in every body SyncMedicalRecords hands to performRequest the parts
\* carry field names of the list medical_report, lab_report, hospital_number,
\* visit_id, subscriber_id, visit_timestamp, title, in that order and each at
\* most once; a file part is there exactly when the record has that
\* attachment, the five scalar fields always, and every file part comes
\* before every scalar field.
C34_FilePartsBeforeFields ==
    \A f \in Frames :
        (f.op = "Sync" /\ f.hasBody) =>
            LET fields == [i \in 1..Len(f.body) |-> f.body[i].field]
                has(name) == \E i \in 1..Len(f.body) : fields[i] = name
            IN /\ \A i \in 1..Len(f.body) : \E k \in 1..Len(PartOrder) : PartOrder[k] = fields[i]
               /\ \A i, j \in 1..Len(f.body) : i < j => PartRank(fields[i]) < PartRank(fields[j])
               /\ has("medical_report") <=> f.rec.MedicalReport.present
               /\ has("lab_report") <=> f.rec.LabReport.present
               /\ \A k \in 3..Len(PartOrder) : has(PartOrder[k])
               /\ \A i, j \in 1..Len(f.body) :
                     (f.body[i].file # "" /\ f.body[j].file = "") => i < j
               /\ \A i \in 1..Len(f.body) :
                     f.body[i].file # "" <=> fields[i] \in {"medical_report", "lab_report"}

\* A record with both attachments has been assembled and sent.
C34_Witness ==
    /\ Depth = 1 /\ Top.op = "Sync" /\ Top.hasBody /\ Top.nsent >= 1
    /\ Top.rec.MedicalReport.present /\ Top.rec.LabReport.present
    /\ Len(Top.body) = Len(PartOrder)

\* C35: a request with a body whose Content-Type header, as it stands on the
\* outgoing request, begins with multipart/form-data carries the caller's
\* bytes uncompressed, whatever the gzipCompress argument and whatever the
\* letter case of the key under which the caller's map held the content type.
C35_DeclaredMultipartNotCompressed ==
    (/\ call.fn = "performRequest" /\ call.done /\ call.hasBody
     /\ HasPrefix(ToLower(HeaderGet(call.result.headers, "Content-Type")), MultipartFormData))
        => call.result.body = call.body

====
